---- MODULE Spec2Model ----
(***************************************************************************)
(* Model of the course configuration cache of gitmanager                  *)
(* (src/access/config.py) and of the course tree validators               *)
(* (src/access/course.py).                                                *)
(*                                                                         *)
(* Spec      sequential calls of CourseConfig.get and CourseConfig.all,   *)
(*           interleaved with an external writer that changes the index   *)
(*           files and the directory COURSES_PATH.                        *)
(* SpecEx    sequential calls of CourseConfig.get and                     *)
(*           CourseConfig.exercise_config, interleaved with a writer that *)
(*           changes the index and exercise files of one course.          *)
(* SpecConc  threads running get and all step by step on the shared       *)
(*           cache, without any lock (the code takes none).               *)
(* SpecLang  CourseConfig._default_lang applied to bounded documents.     *)
(* SpecTree  the validators of the Course model applied to bounded        *)
(*           course documents.                                            *)
(* SpecInclude   ConfigParser._include on bounded host documents.         *)
(* SpecLocate    ConfigParser.get_config on the states of a path.         *)
(* SpecTags      ConfigParser.process_tags on bounded documents.          *)
(* SpecVariants  ExerciseConfig.data_for_language on bounded records.     *)
(* SpecLoad      the check, stamp and store of exercise_config.           *)
(* SpecFlatten   the flattening of the module tree in CourseConfig.get.   *)
(* SpecRace      exercise_config step by step against a writer of the     *)
(*               exercise file.                                           *)
(***************************************************************************)
EXTENDS Integers, Sequences, FiniteSets, TLC

VARIABLES
    fs,         \* fs[k][fmt]: the file <course k>/index.<fmt>
    exfs,       \* exfs[fmt]: the file <course ExCourse>/<ExKey>.<fmt>
    dirMtime,   \* os.path.getmtime(settings.COURSES_PATH)
    clock,      \* wall clock: source of file mtimes and of time.time()
    courses,    \* CourseConfig._courses
    dir_mtime,  \* CourseConfig._dir_mtime
    last,       \* the last call made: its arguments, outcome and pre-state
    th,         \* SpecConc: th[t] is the call thread t runs and where it is
    doc,        \* SpecLang: the course document given to _default_lang
    lang,       \* SpecLang: CourseConfig.lang, the value _default_lang returned
    course_doc, \* SpecTree: the document given to the Course model
    validation, \* SpecTree: the outcome of constructing the Course
    arg,        \* the arguments of the ConfigParser / ExerciseConfig call made
    ret,        \* what that call returned or raised, and what it left behind
    race        \* SpecRace: an exercise file, its loader's locals, the cache

vars == <<fs, exfs, dirMtime, clock, courses, dir_mtime, last, th, doc, lang,
          course_doc, validation, arg, ret, race>>
concVars == <<th>>
langVars == <<doc, lang>>
treeVars == <<course_doc, validation>>
callVars == <<arg, ret>>
raceVars == <<race>>

(***************************************************************************)
(* Bounds and inputs.                                                      *)
(***************************************************************************)
\* The external writer stops once the clock has reached MaxClock.
MaxClock == 4

\* Course.objects.all(): the course keys of the registry, in query order.
Registry == <<"c1", "c2">>
CourseKeys == {Registry[i] : i \in 1..Len(Registry)}

\* ConfigParser.FORMATS, in the order its keys are probed.
FORMATS == <<"json", "yaml">>
Formats == {FORMATS[i] : i \in 1..Len(FORMATS)}

\* What an index file can hold: a mapping with `name`, a mapping without
\* `name`, text the loader rejects, or an empty document (loads as None).
IndexKinds == {"ok", "noname", "syntax", "empty"}

\* data["exercises"] of every loadable course document, and the keys
\* exercise_config is called with.
ExerciseList == <<"e1">>
ExKeys == {"e1", "e2"}
\* The course whose exercise files the writer changes.
ExCourse == "c1"
ExKey == "e1"
\* What an exercise file can hold: a mapping with title and view_type, a
\* mapping without title, or an empty mapping.
ExKinds == {"ok", "notitle", "emptymap"}

NoFile == [ex |-> FALSE, mtime |-> 0, kind |-> "none"]
NoEx == [file |-> "none", mtime |-> 0, ptime |-> 0]
ListedKeys == {ExerciseList[i] : i \in 1..Len(ExerciseList)}
NoExercises == [e \in ListedKeys |-> NoEx]
NoRec == [key |-> "none", file |-> "none", mtime |-> 0, ptime |-> 0,
          exercises |-> NoExercises]

(***************************************************************************)
(* ConfigParser.                                                           *)
(***************************************************************************)
\* get_config(path) for a path without extension whose parent directory
\* exists; d[fmt] is the file path.<fmt>.  Returns the format of the one
\* existing candidate, or the ConfigError raised.
get_config(d) ==
    LET found == SelectSeq(FORMATS, LAMBDA f : d[f].ex)
    IN  IF Len(found) > 1 THEN "MultipleConfigError"
        ELSE IF Len(found) = 0 THEN "NoConfigError"
        ELSE found[1]

IsConfigError(x) == x \in {"MultipleConfigError", "NoConfigError", "ConfigError"}

\* parse(path): the loader of the extension is applied; only ValueError is
\* turned into ConfigError.  json.load raises JSONDecodeError (a ValueError);
\* yaml.safe_load raises yaml.YAMLError, which is no ValueError and passes
\* through.  Returns "data", "None" or the exception raised.
parse(fmt, kind) ==
    IF kind = "syntax"
    THEN IF fmt = "json" THEN "ConfigError" ELSE "YAMLError"
    ELSE IF kind = "empty" THEN "None"
    ELSE "data"

\* check_fields(file, data, ["name"]) on a parsed index document.
check_fields_name(kind) == IF kind = "noname" THEN "ConfigError" ELSE "ok"

\* check_fields(file, version, ["title", "view_type"]) on an exercise.
check_fields_title(kind) == IF kind = "notitle" THEN "ConfigError" ELSE "ok"

(***************************************************************************)
(* CourseConfig.get                                                        *)
(***************************************************************************)
\* The mutated freshness test (used to validate the properties below).
course_fresh_strict(rec, d) ==
    d[rec.file].ex /\ rec.mtime > d[rec.file].mtime

\* Lines 243-247: config.mtime >= os.path.getmtime(config.file), where an
\* OSError of the probe is swallowed and control falls through to the load.
course_fresh(rec, d) ==
    d[rec.file].ex /\ rec.mtime >= d[rec.file].mtime

\* Lines 249-305 of get(course_key) at time clk, up to the record built:
\*   "None"     no index file could be located (ConfigError caught in get)
\*   "ConfigError", "YAMLError"   raised
\*   "built"    the record `rec` was built; exercises = {}
load_course(k, clk) ==
    LET f == get_config(fs[k])
    IN  IF IsConfigError(f) THEN [out |-> "None", rec |-> NoRec]
        ELSE LET t == fs[k][f].mtime
                 parsed == parse(f, fs[k][f].kind)
             IN  IF parsed = "YAMLError" THEN [out |-> "YAMLError", rec |-> NoRec]
                 ELSE IF parsed \in {"ConfigError", "None"}
                 THEN [out |-> "ConfigError", rec |-> NoRec]
                 ELSE IF check_fields_name(fs[k][f].kind) = "ConfigError"
                 THEN [out |-> "ConfigError", rec |-> NoRec]
                 ELSE [out |-> "built",
                       rec |-> [key |-> k, file |-> f, mtime |-> t, ptime |-> clk + 1,
                                exercises |-> NoExercises]]

\* get(course_key) on cache c at time clk: the new cache, the new clock, the
\* outcome and the record returned.
\*   "hit"      the cached record is returned (line 245)
\*   "loaded"   a new record was stored and returned (lines 297-307)
\*   otherwise  the outcome of load_course; the cache is left as it was
get(c, clk, k) ==
    IF c[k] # NoRec /\ course_fresh(c[k], fs[k])
    THEN [cache |-> c, clock |-> clk, out |-> "hit", rec |-> c[k]]
    ELSE LET l == load_course(k, clk)
         IN  IF l.out = "built"
             THEN [cache |-> [c EXCEPT ![k] = l.rec], clock |-> clk + 1,
                   out |-> "loaded", rec |-> l.rec]
             ELSE [cache |-> c, clock |-> clk, out |-> l.out, rec |-> NoRec]

\* What is recorded of a call: the operation, its arguments, its outcome, the
\* record it returned, and the cache and _dir_mtime it started from.
LastCall(op, k, e, out, rec, exrec, enum) ==
    [op |-> op, key |-> k, ekey |-> e, out |-> out, rec |-> rec, exrec |-> exrec,
     pre |-> courses, preDir |-> dir_mtime, preClock |-> clock, enumerated |-> enum]

Get(k) ==
    LET r == get(courses, clock, k)
    IN  /\ courses' = r.cache
        /\ clock' = r.clock
        /\ last' = LastCall("get", k, "none", r.out, r.rec, NoEx, FALSE)
        /\ UNCHANGED <<fs, exfs, dirMtime, dir_mtime, concVars, langVars, treeVars, callVars, raceVars>>

(***************************************************************************)
(* CourseConfig.all                                                        *)
(***************************************************************************)
\* Lines 219-224: get() for the registry's courses from position i on; a
\* ConfigError is logged and skipped, any other exception leaves the loop
\* and all().
\* The mutated loop: a ConfigError ends the enumeration instead of being skipped.
RECURSIVE all_loop_stops(_, _, _)
all_loop_stops(c, clk, i) ==
    IF i > Len(Registry)
    THEN [cache |-> c, clock |-> clk, out |-> "returned"]
    ELSE LET r == get(c, clk, Registry[i])
         IN  IF r.out = "YAMLError"
             THEN [cache |-> r.cache, clock |-> r.clock, out |-> "YAMLError"]
             ELSE IF r.out = "ConfigError"
             THEN [cache |-> r.cache, clock |-> r.clock, out |-> "returned"]
             ELSE all_loop_stops(r.cache, r.clock, i + 1)

RECURSIVE all_loop(_, _, _)
all_loop(c, clk, i) ==
    IF i > Len(Registry)
    THEN [cache |-> c, clock |-> clk, out |-> "returned"]
    ELSE LET r == get(c, clk, Registry[i])
         IN  IF r.out = "YAMLError"
             THEN [cache |-> r.cache, clock |-> r.clock, out |-> "YAMLError"]
             ELSE all_loop(r.cache, r.clock, i + 1)

\* The mutated clearing step: the cache is kept.
all_clear_keeps(c) == c

\* Line 215: CourseConfig._courses.clear().
all_clear(c) == [k \in CourseKeys |-> NoRec]

\* Line 214: the course list is recreated only if COURSES_PATH was modified.
all_stale(seen, t) == seen < t

\* all(): the value returned is the live view of the cache, courses'.
All ==
    LET t == dirMtime
    IN  IF all_stale(dir_mtime, t)
        THEN LET r == all_loop(all_clear(courses), clock, 1)
             IN  /\ courses' = r.cache
                 /\ clock' = r.clock
                 /\ dir_mtime' = t
                 /\ last' = LastCall("all", "none", "none", r.out, NoRec, NoEx, TRUE)
                 /\ UNCHANGED <<fs, exfs, dirMtime, concVars, langVars, treeVars, callVars, raceVars>>
        ELSE /\ last' = LastCall("all", "none", "none", "returned", NoRec, NoEx, FALSE)
             /\ UNCHANGED <<fs, exfs, dirMtime, clock, courses, dir_mtime, concVars, langVars,
                          treeVars, callVars, raceVars>>

(***************************************************************************)
(* CourseConfig.exercise_config                                            *)
(***************************************************************************)
\* The files <conf_dir of k>/<e>.<fmt>: the writer keeps exercise files for
\* ExKey of ExCourse only.
ExDir(k, e) ==
    IF k = ExCourse /\ e = ExKey THEN exfs ELSE [f \in Formats |-> NoFile]

\* Line 157: exercise_key in self.data["exercises"].
InList(e) == \E i \in 1..Len(ExerciseList) : ExerciseList[i] = e

\* Lines 163-167: exercise_root.mtime >= os.path.getmtime(exercise_root.file),
\* where an OSError of the probe is swallowed and control falls through.
exercise_fresh(x, d) ==
    d[x.file].ex /\ x.mtime >= d[x.file].mtime

\* ExerciseConfig.load(exercise_key, course_dir): the format located, the
\* mtime read after parsing, and the outcome: "data", "emptymap" or the
\* exception raised ("include" in data raises TypeError for a None document).
load(d) ==
    LET f == get_config(d)
    IN  IF IsConfigError(f) THEN [file |-> "none", mtime |-> 0, out |-> "ConfigError"]
        ELSE LET data == parse(f, d[f].kind)
             IN  IF data \in {"ConfigError", "YAMLError"}
                 THEN [file |-> f, mtime |-> 0, out |-> data]
                 ELSE IF data = "None"
                 THEN [file |-> f, mtime |-> 0, out |-> "TypeError"]
                 ELSE [file |-> f, mtime |-> d[f].mtime,
                       out |-> IF d[f].kind = "emptymap" THEN "emptymap" ELSE "data"]

\* exercise_config(e) on the course record rec of course k at time clk: the
\* new exercise map of the record, the new clock, the outcome and the
\* exercise record returned.
exercise_config(rec, clk, k, e) ==
    IF ~InList(e)
    THEN [exercises |-> rec.exercises, clock |-> clk, out |-> "None", exrec |-> NoEx]
    ELSE IF rec.exercises[e] # NoEx /\ exercise_fresh(rec.exercises[e], ExDir(k, e))
    THEN [exercises |-> rec.exercises, clock |-> clk, out |-> "hit",
          exrec |-> rec.exercises[e]]
    ELSE LET l == load(ExDir(k, e))
         IN  IF l.out \in {"ConfigError", "YAMLError", "TypeError"}
             THEN [exercises |-> rec.exercises, clock |-> clk, out |-> l.out,
                   exrec |-> NoEx]
             ELSE IF l.out = "emptymap"
             THEN [exercises |-> rec.exercises, clock |-> clk, out |-> "None",
                   exrec |-> NoEx]
             ELSE IF check_fields_title(ExDir(k, e)[l.file].kind) = "ConfigError"
             THEN [exercises |-> rec.exercises, clock |-> clk, out |-> "ConfigError",
                   exrec |-> NoEx]
             ELSE LET x == [file |-> l.file, mtime |-> l.mtime, ptime |-> clk + 1]
                  IN  [exercises |-> [rec.exercises EXCEPT ![e] = x],
                       clock |-> clk + 1, out |-> "loaded", exrec |-> x]

\* exercise_config is a method of a course record: it is called on the
\* record the cache holds for k.
ExerciseConfigCall(k, e) ==
    /\ courses[k] # NoRec
    /\ LET r == exercise_config(courses[k], clock, k, e)
       IN  /\ courses' = [courses EXCEPT ![k].exercises = r.exercises]
           /\ clock' = r.clock
           /\ last' = LastCall("exercise_config", k, e, r.out, NoRec, r.exrec, FALSE)
    /\ UNCHANGED <<fs, exfs, dirMtime, dir_mtime, concVars, langVars, treeVars, callVars, raceVars>>

(***************************************************************************)
(* The external writer.                                                    *)
(***************************************************************************)
NoCall(op) ==
    [op |-> op, key |-> "none", ekey |-> "none", out |-> "none", rec |-> NoRec,
     exrec |-> NoEx, pre |-> [k \in CourseKeys |-> NoRec], preDir |-> 0,
     preClock |-> 0, enumerated |-> FALSE]
LastWrite == NoCall("write")

WriteIndex(k, f, kind) ==
    /\ clock < MaxClock
    /\ clock' = clock + 1
    /\ fs' = [fs EXCEPT ![k][f] = [ex |-> TRUE, mtime |-> clock + 1, kind |-> kind]]
    /\ last' = LastWrite
    /\ UNCHANGED <<exfs, dirMtime, courses, dir_mtime, concVars, langVars, treeVars, callVars, raceVars>>

RemoveIndex(k, f) ==
    /\ clock < MaxClock
    /\ fs[k][f].ex
    /\ clock' = clock + 1
    /\ fs' = [fs EXCEPT ![k][f] = NoFile]
    /\ last' = LastWrite
    /\ UNCHANGED <<exfs, dirMtime, courses, dir_mtime, concVars, langVars, treeVars, callVars, raceVars>>

WriteExercise(f, kind) ==
    /\ clock < MaxClock
    /\ clock' = clock + 1
    /\ exfs' = [exfs EXCEPT ![f] = [ex |-> TRUE, mtime |-> clock + 1, kind |-> kind]]
    /\ last' = LastWrite
    /\ UNCHANGED <<fs, dirMtime, courses, dir_mtime, concVars, langVars, treeVars, callVars, raceVars>>

RemoveExercise(f) ==
    /\ clock < MaxClock
    /\ exfs[f].ex
    /\ clock' = clock + 1
    /\ exfs' = [exfs EXCEPT ![f] = NoFile]
    /\ last' = LastWrite
    /\ UNCHANGED <<fs, dirMtime, courses, dir_mtime, concVars, langVars, treeVars, callVars, raceVars>>

\* A course directory is added to or removed from COURSES_PATH.
TouchDir ==
    /\ clock < MaxClock
    /\ clock' = clock + 1
    /\ dirMtime' = clock + 1
    /\ last' = LastWrite
    /\ UNCHANGED <<fs, exfs, courses, dir_mtime, concVars, langVars, treeVars, callVars, raceVars>>

\* The variables of the other specifications, at rest.
ConcIdle == th = <<>>
LangIdle == doc = <<>> /\ lang = "unset"
TreeIdle == course_doc = <<>> /\ validation = "unset"
\* No call made: ret.out is "unset" until the call of a specification returns.
Unset == [out |-> "unset"]
CallIdle == arg = [op |-> "none"] /\ ret = Unset
RaceIdle == race = <<>>

\* The process starts with an empty cache (_courses = {}, _dir_mtime = 0); the
\* directory holds index.json and ExKey.json for every course.
InitFiles ==
    /\ fs = [k \in CourseKeys |->
                [f \in Formats |-> IF f = "json"
                                   THEN [ex |-> TRUE, mtime |-> 1, kind |-> "ok"]
                                   ELSE NoFile]]
    /\ exfs = [f \in Formats |-> IF f = "json"
                                 THEN [ex |-> TRUE, mtime |-> 1, kind |-> "ok"]
                                 ELSE NoFile]
    /\ dirMtime = 1
    /\ clock = 1

Init ==
    /\ InitFiles
    /\ courses = [k \in CourseKeys |-> NoRec]
    /\ dir_mtime = 0
    /\ last = NoCall("init")
    /\ ConcIdle /\ LangIdle /\ TreeIdle /\ CallIdle /\ RaceIdle

Next ==
    \/ \E k \in CourseKeys : Get(k)
    \/ All
    \/ \E k \in CourseKeys, f \in Formats, kind \in IndexKinds : WriteIndex(k, f, kind)
    \/ \E k \in CourseKeys, f \in Formats : RemoveIndex(k, f)
    \/ TouchDir

Spec == Init /\ [][Next]_vars

\* The exercise cache of the records: the writer changes the files of
\* ExCourse only, and the directory itself is left alone.
NextEx ==
    \/ \E k \in CourseKeys : Get(k)
    \/ \E k \in CourseKeys, e \in ExKeys : ExerciseConfigCall(k, e)
    \/ \E f \in Formats, kind \in IndexKinds : WriteIndex(ExCourse, f, kind)
    \/ \E f \in Formats : RemoveIndex(ExCourse, f)
    \/ \E f \in Formats, kind \in ExKinds : WriteExercise(f, kind)
    \/ \E f \in Formats : RemoveExercise(f)

SpecEx == Init /\ [][NextEx]_vars

(***************************************************************************)
(* SpecConc: get and all run by threads, one statement at a time.  The     *)
(* code takes no lock, so between any two statements of one thread the     *)
(* other threads may run.  The files do not change.                        *)
(***************************************************************************)
NThreads == 2
\* The calls each thread makes, one after the other.
MaxCalls == 2
Threads == 1..NThreads

\* A thread: the call it runs (op, key), the statement it is at (pc: the
\* line of config.py), the locals of all() (t, i), the record built by get,
\* and, once the call is over (pc = "done"), its outcome: out, the record
\* get returned (rec), the keys of the collection all returned (ret).
IdleThread ==
    [op |-> "none", key |-> "none", pc |-> "idle", t |-> 0, i |-> 0, rec |-> NoRec,
     out |-> "none", ret |-> {}, calls |-> 0]

Goto(t, pc) == th' = [th EXCEPT ![t].pc = pc]

\* get(key) is over for thread t with outcome out and record rec.  Called
\* from all()'s loop (lines 220-224), a ConfigError is skipped, any other
\* exception leaves all(), and otherwise the loop goes on.
get_returns(t, out, rec) ==
    IF th[t].op = "get"
    THEN th' = [th EXCEPT ![t].pc = "done", ![t].out = out, ![t].rec = rec]
    ELSE IF out \in {"KeyError", "YAMLError"}
    THEN th' = [th EXCEPT ![t].pc = "done", ![t].out = out]
    ELSE th' = [th EXCEPT ![t].pc = "a219", ![t].i = th[t].i + 1]

StartGet(t, k) ==
    /\ th[t].pc \in {"idle", "done"}
    /\ th[t].calls < MaxCalls
    /\ th' = [th EXCEPT ![t] = [IdleThread EXCEPT !.op = "get", !.key = k, !.pc = "g241",
                                                  !.calls = th[t].calls + 1]]
    /\ UNCHANGED <<fs, exfs, dirMtime, clock, courses, dir_mtime, last, langVars, treeVars, callVars, raceVars>>

StartAll(t) ==
    /\ th[t].pc \in {"idle", "done"}
    /\ th[t].calls < MaxCalls
    /\ th' = [th EXCEPT ![t] = [IdleThread EXCEPT !.op = "all", !.pc = "a213",
                                                  !.calls = th[t].calls + 1]]
    /\ UNCHANGED <<fs, exfs, dirMtime, clock, courses, dir_mtime, last, langVars, treeVars, callVars, raceVars>>

\* Line 241: if course_key in CourseConfig._courses.
G241(t) ==
    /\ th[t].pc = "g241"
    /\ IF courses[th[t].key] # NoRec THEN Goto(t, "g242") ELSE Goto(t, "m322")
    /\ UNCHANGED <<fs, exfs, dirMtime, clock, courses, dir_mtime, last, langVars, treeVars, callVars, raceVars>>

\* Lines 242-247: config = _courses[course_key] raises KeyError if the entry
\* is gone by now; a fresh record is returned.
G242(t) ==
    /\ th[t].pc = "g242"
    /\ LET k == th[t].key
       IN  IF courses[k] = NoRec THEN get_returns(t, "KeyError", NoRec)
           ELSE IF course_fresh(courses[k], fs[k]) THEN get_returns(t, "hit", courses[k])
           ELSE Goto(t, "m322")
    /\ UNCHANGED <<fs, exfs, dirMtime, clock, courses, dir_mtime, last, langVars, treeVars, callVars, raceVars>>

\* Line 250 calling course_meta, line 322: if course_key in _courses.
M322(t) ==
    /\ th[t].pc = "m322"
    /\ IF courses[th[t].key] # NoRec THEN Goto(t, "m323") ELSE Goto(t, "g252")
    /\ UNCHANGED <<fs, exfs, dirMtime, clock, courses, dir_mtime, last, langVars, treeVars, callVars, raceVars>>

\* Lines 323-330: course_root = _courses[course_key] raises KeyError if the
\* entry is gone by now; else the meta data is taken from it or read anew.
M323(t) ==
    /\ th[t].pc = "m323"
    /\ IF courses[th[t].key] = NoRec THEN get_returns(t, "KeyError", NoRec)
       ELSE Goto(t, "g252")
    /\ UNCHANGED <<fs, exfs, dirMtime, clock, courses, dir_mtime, last, langVars, treeVars, callVars, raceVars>>

\* Lines 252-305: the index file is located and parsed and the record built.
G252(t) ==
    /\ th[t].pc = "g252"
    /\ LET l == load_course(th[t].key, clock)
       IN  IF l.out = "built"
           THEN /\ th' = [th EXCEPT ![t].pc = "g297", ![t].rec = l.rec]
                /\ clock' = clock + 1
           ELSE /\ get_returns(t, l.out, NoRec)
                /\ clock' = clock
    /\ UNCHANGED <<fs, exfs, dirMtime, courses, dir_mtime, last, langVars, treeVars, callVars, raceVars>>

\* Lines 297-307: CourseConfig._courses[course_key] = config; return config.
G297(t) ==
    /\ th[t].pc = "g297"
    /\ courses' = [courses EXCEPT ![th[t].key] = th[t].rec]
    /\ get_returns(t, "loaded", th[t].rec)
    /\ UNCHANGED <<fs, exfs, dirMtime, clock, dir_mtime, last, langVars, treeVars, callVars, raceVars>>

\* Line 213: t = os.path.getmtime(settings.COURSES_PATH).
A213(t) ==
    /\ th[t].pc = "a213"
    /\ th' = [th EXCEPT ![t].pc = "a214", ![t].t = dirMtime]
    /\ UNCHANGED <<fs, exfs, dirMtime, clock, courses, dir_mtime, last, langVars, treeVars, callVars, raceVars>>

\* Line 214: if CourseConfig._dir_mtime < t.
A214(t) ==
    /\ th[t].pc = "a214"
    /\ IF all_stale(dir_mtime, th[t].t) THEN Goto(t, "a215") ELSE Goto(t, "a226")
    /\ UNCHANGED <<fs, exfs, dirMtime, clock, courses, dir_mtime, last, langVars, treeVars, callVars, raceVars>>

\* Line 215: CourseConfig._courses.clear().
A215(t) ==
    /\ th[t].pc = "a215"
    /\ courses' = all_clear(courses)
    /\ Goto(t, "a216")
    /\ UNCHANGED <<fs, exfs, dirMtime, clock, dir_mtime, last, langVars, treeVars, callVars, raceVars>>

\* Line 216: CourseConfig._dir_mtime = t.
A216(t) ==
    /\ th[t].pc = "a216"
    /\ dir_mtime' = th[t].t
    /\ th' = [th EXCEPT ![t].pc = "a219", ![t].i = 1]
    /\ UNCHANGED <<fs, exfs, dirMtime, clock, courses, last, langVars, treeVars, callVars, raceVars>>

\* Lines 219-221: the next course of the registry is handed to get().
A219(t) ==
    /\ th[t].pc = "a219"
    /\ IF th[t].i > Len(Registry) THEN Goto(t, "a226")
       ELSE th' = [th EXCEPT ![t].pc = "g241", ![t].key = Registry[th[t].i]]
    /\ UNCHANGED <<fs, exfs, dirMtime, clock, courses, dir_mtime, last, langVars, treeVars, callVars, raceVars>>

\* Line 226: return CourseConfig._courses.values(), recorded as the keys the
\* cache holds at the return.
A226(t) ==
    /\ th[t].pc = "a226"
    /\ th' = [th EXCEPT ![t].pc = "done", ![t].out = "returned",
                        ![t].ret = {k \in CourseKeys : courses[k] # NoRec}]
    /\ UNCHANGED <<fs, exfs, dirMtime, clock, courses, dir_mtime, last, langVars, treeVars, callVars, raceVars>>

InitConc ==
    /\ InitFiles
    /\ courses = [k \in CourseKeys |-> NoRec]
    /\ dir_mtime = 0
    /\ last = NoCall("init")
    /\ th = [t \in Threads |-> IdleThread]
    /\ LangIdle /\ TreeIdle /\ CallIdle /\ RaceIdle

NextConc ==
    \E t \in Threads :
        \/ \E k \in CourseKeys : StartGet(t, k)
        \/ StartAll(t)
        \/ G241(t) \/ G242(t) \/ M322(t) \/ M323(t) \/ G252(t) \/ G297(t)
        \/ A213(t) \/ A214(t) \/ A215(t) \/ A216(t) \/ A219(t) \/ A226(t)

SpecConc == InitConc /\ [][NextConc]_vars

(***************************************************************************)
(* SpecLang: CourseConfig._default_lang.                                   *)
(***************************************************************************)
\* DEFAULT_LANG of config.py.
DEFAULT_LANG == "en"
LangCodes == {"en", "fi", "sv", "de"}
\* The longest `language` list drawn.
MaxLangs == 2

\* A field of a parsed document: absent, a string or a list of strings.
Absent == [type |-> "absent", str |-> "", list |-> <<>>]
Str(x) == [type |-> "str", str |-> x, list |-> <<>>]
List(l) == [type |-> "list", str |-> "", list |-> l]
LanguageValues ==
    {Absent} \cup {Str(x) : x \in LangCodes}
        \cup {List(l) : l \in UNION {[1..n -> LangCodes] : n \in 0..MaxLangs}}
LangValues == {Absent} \cup {Str(x) : x \in LangCodes}
Docs == [language : LanguageValues, lang : LangValues]

\* Line 355, `l == str`: the value is compared with the class str itself,
\* which no value a JSON or YAML loader returns is equal to.
eq_str_class(l) == l.type = "class"

\* data.get('lang', DEFAULT_LANG), line 357.
get_lang(d) == IF d.lang.type = "absent" THEN DEFAULT_LANG ELSE d.lang.str

\* _default_lang(data): the document as the call leaves it (data['lang'] is
\* assigned in place) and the value returned, or the exception raised.
default_lang(d) ==
    LET l == d.language
    IN  IF l.type = "list"
        THEN IF Len(l.list) = 0
             THEN [data |-> d, out |-> "IndexError"]
             ELSE LET d2 == [d EXCEPT !.lang = Str(l.list[1])]
                  IN  [data |-> d2, out |-> get_lang(d2)]
        ELSE IF eq_str_class(l)
        THEN LET d2 == [d EXCEPT !.lang = l]
             IN  [data |-> d2, out |-> get_lang(d2)]
        ELSE [data |-> d, out |-> get_lang(d)]

\* Line 303 of get: lang = CourseConfig._default_lang(data).
DefaultLang ==
    /\ lang = "unset"
    /\ LET r == default_lang(doc)
       IN  doc' = r.data /\ lang' = r.out
    /\ UNCHANGED <<fs, exfs, dirMtime, clock, courses, dir_mtime, last, concVars, treeVars, callVars, raceVars>>

InitLang ==
    /\ doc \in Docs
    /\ lang = "unset"
    /\ InitFiles
    /\ courses = [k \in CourseKeys |-> NoRec]
    /\ dir_mtime = 0
    /\ last = NoCall("init")
    /\ ConcIdle /\ TreeIdle /\ CallIdle /\ RaceIdle

NextLang == DefaultLang

SpecLang == InitLang /\ [][NextLang]_vars

(***************************************************************************)
(* SpecTree: the validators of the Course model (course.py).               *)
(***************************************************************************)
\* The most children a module or an item has, and the most modules.
MaxChildren == 1
MaxModules == 2
ItemKeys == {"ex1", "ex2"}
Categories == {"hw", "lab"}
ModuleKeys == {"m1", "m2"}

SeqsUpTo(S, n) == UNION {[1..m -> S] : m \in 0..n}

\* Items without children, items whose children have none, and modules.
Leaves == [key : ItemKeys, category : Categories, children : {<<>>}]
Items == [key : ItemKeys, category : Categories,
          children : SeqsUpTo(Leaves, MaxChildren)]
Modules == [key : ModuleKeys, children : SeqsUpTo(Items, MaxChildren)]
CourseDocs == [modules : SeqsUpTo(Modules, MaxModules),
               categories : {{"hw"}, {"hw", "lab"}}]

\* Parent.child_keys: the keys of the children, each followed by the keys
\* below it.
RECURSIVE child_keys_from(_, _)
child_keys_from(p, i) ==
    IF i > Len(p.children) THEN <<>>
    ELSE <<p.children[i].key>> \o child_keys_from(p.children[i], 1)
             \o child_keys_from(p, i + 1)
child_keys(p) == child_keys_from(p, 1)

\* Parent.child_categories: the categories of the children.  Line 100,
\* categories.union(c.child_categories()), builds a new set and drops it, so
\* nothing from below the children is added.
child_categories(p) == {p.children[i].category : i \in 1..Len(p.children)}

\* Course.validate_module_keys: a module key seen before raises.
validate_module_keys(modules) ==
    IF \E i, j \in 1..Len(modules) : i < j /\ modules[i].key = modules[j].key
    THEN "ValueError" ELSE "ok"

\* Course.validate_categories: a category of child_categories() of a module
\* that is not declared raises.
validate_categories(values) ==
    IF \E i \in 1..Len(values.modules) :
           \E c \in child_categories(values.modules[i]) : c \notin values.categories
    THEN "ValueError" ELSE "ok"

\* Course.validate_keys: for each module on its own, child_keys() holding a
\* key twice raises.
validate_keys(values) ==
    IF \E i \in 1..Len(values.modules) :
           LET keys == child_keys(values.modules[i])
           IN  Len(keys) # Cardinality({keys[n] : n \in 1..Len(keys)})
    THEN "ValueError" ELSE "ok"

\* Course(**document): the validator of the field `modules` runs with the
\* fields; the root validators run in the order of definition, and each is
\* declared skip_on_failure, so it is skipped once an error is recorded.
construct(d) ==
    IF validate_module_keys(d.modules) = "ValueError" THEN "DuplicateModuleKey"
    ELSE IF validate_categories(d) = "ValueError" THEN "CategoryNotFound"
    ELSE IF validate_keys(d) = "ValueError" THEN "DuplicateKeys"
    ELSE "accepted"

Construct ==
    /\ validation = "unset"
    /\ validation' = construct(course_doc)
    /\ UNCHANGED <<fs, exfs, dirMtime, clock, courses, dir_mtime, last, concVars, langVars,
                   course_doc, callVars, raceVars>>

InitTree ==
    /\ course_doc \in CourseDocs
    /\ validation = "unset"
    /\ InitFiles
    /\ courses = [k \in CourseKeys |-> NoRec]
    /\ dir_mtime = 0
    /\ last = NoCall("init")
    /\ ConcIdle /\ LangIdle /\ CallIdle /\ RaceIdle

NextTree == Construct

SpecTree == InitTree /\ [][NextTree]_vars

(***************************************************************************)
(* SpecInclude: ConfigParser._include (lines 450-501).                     *)
(***************************************************************************)
\* The longest include list drawn.
MaxIncludes == 2
IncKeys == {"a", "b"}
IncValues == {1, 2}
\* The mappings a host document or an include file can hold.
IncMaps == UNION {[D -> IncValues] : D \in SUBSET IncKeys}

\* An entry of data["include"].  `file` is "absent" when the entry has no
\* `file` field, "missing" when no file can be located for it, and else the
\* format of the one file get_config finds; `content` is the mapping written
\* in that file (for an entry with template_context: in its rendering).
NoFileField == [file |-> "absent", template_context |-> FALSE, force |-> FALSE,
                content |-> <<>>]
Unlocated == [file |-> "missing", template_context |-> FALSE, force |-> FALSE,
              content |-> <<>>]
IncludeEntries ==
    {NoFileField, Unlocated}
        \cup [file : Formats, template_context : BOOLEAN, force : BOOLEAN,
              content : IncMaps]
IncludeLists == UNION {[1..n -> IncludeEntries] : n \in 0..MaxIncludes}
\* The host documents: own keys and the include list.
Hosts == [own : IncMaps, include : IncludeLists]

\* Lines 470-484: loader = FORMATS[ext] is json.load or yaml.safe_load, and it
\* is called with a string: the path of the include file (line 484) or the
\* rendered text (line 481).  json.load calls .read() on its argument, which
\* a string does not have; yaml.safe_load parses the string itself, so it
\* returns the mapping written in a rendered text, and for a path the path as
\* a plain scalar.
loader(e) ==
    IF e.file = "json" THEN [t |-> "AttributeError", m |-> <<>>]
    ELSE IF e.template_context THEN [t |-> "map", m |-> e.content]
    ELSE [t |-> "str", m |-> <<>>]

\* return_data.update(new_data), line 487.
update(acc, m) ==
    [k \in DOMAIN acc \cup DOMAIN m |-> IF k \in DOMAIN m THEN m[k] ELSE acc[k]]

\* Lines 486-500: one include merged into return_data.  dict.update of a
\* string raises ValueError, and a string has no .items().
merge(acc, e, new) ==
    IF new.t = "AttributeError" THEN [out |-> "AttributeError", data |-> acc]
    ELSE IF e.force
    THEN IF new.t = "str" THEN [out |-> "ValueError", data |-> acc]
         ELSE [out |-> "ok", data |-> update(acc, new.m)]
    ELSE IF new.t = "str" THEN [out |-> "AttributeError", data |-> acc]
    ELSE IF DOMAIN new.m \cap DOMAIN acc # {}
    THEN [out |-> "ConfigError", data |-> acc]
    ELSE [out |-> "ok", data |-> update(acc, new.m)]

\* The loop of lines 466-500 from entry i on.
RECURSIVE include_loop(_, _, _)
include_loop(acc, l, i) ==
    IF i > Len(l) THEN [out |-> "ok", data |-> acc]
    ELSE IF l[i].file \in {"absent", "missing"}
    THEN [out |-> "ConfigError", data |-> acc]
    ELSE LET r == merge(acc, l[i], loader(l[i]))
         IN  IF r.out # "ok" THEN r ELSE include_loop(r.data, l, i + 1)

\* _include(data, target_file, course_dir): return_data = data.copy(), then
\* the loop.  `data` is the mapping returned (the key `include` stays in it)
\* when out = "ok".
include(h) == include_loop(h.own, h.include, 1)

IncludeCall ==
    /\ arg.op = "_include" /\ ret = Unset
    /\ ret' = include(arg.data)
    /\ UNCHANGED <<fs, exfs, dirMtime, clock, courses, dir_mtime, last, concVars,
                   langVars, treeVars, arg, raceVars>>

\* The state every specification of a single call starts from.
InitCall(op, inputs) ==
    /\ arg \in [op : {op}, data : inputs]
    /\ ret = Unset
    /\ InitFiles
    /\ courses = [k \in CourseKeys |-> NoRec]
    /\ dir_mtime = 0
    /\ last = NoCall("init")
    /\ ConcIdle /\ LangIdle /\ TreeIdle /\ RaceIdle

InitInclude == InitCall("_include", Hosts)
NextInclude == IncludeCall
SpecInclude == InitInclude /\ [][NextInclude]_vars

(***************************************************************************)
(* SpecLocate: ConfigParser.get_config (lines 392-421) on any path.        *)
(***************************************************************************)
\* The logical paths: os.path.join(<dir>, name) with the extension
\* os.path.splitext finds in name ("" when it has none).
PathNames == {"index", "e1"}
PathExts == {"", "json", "yaml", "txt"}
\* What the filesystem holds for a path: whether its parent is a directory,
\* whether the path itself is a file, and whether path.<fmt> is a file.  A
\* file only exists in a directory that exists.
PathStates ==
    {p \in [name : PathNames, ext : PathExts, isdir : BOOLEAN, isfile : BOOLEAN,
            cand : [Formats -> BOOLEAN]] :
        ~p.isdir => (~p.isfile /\ \A f \in Formats : ~p.cand[f])}

\* The path itself, and the candidate "%s.%s" % (path, fmt).
Literal(p) == [name |-> p.name, ext |-> p.ext, suffix |-> ""]
Candidate(p, fmt) == [name |-> p.name, ext |-> p.ext, suffix |-> fmt]
NoSupportedConfig == [name |-> "No supported config", ext |-> "", suffix |-> ""]
MultipleConfigFiles == [name |-> "Multiple config files", ext |-> "", suffix |-> ""]

\* The mutated loop: the last candidate found is kept, none is refused.
RECURSIVE probe_last(_, _, _, _)
probe_last(p, formats, i, config_file) ==
    IF i > Len(formats) THEN config_file
    ELSE IF p.cand[formats[i]]
    THEN probe_last(p, formats, i + 1, Candidate(p, formats[i]))
    ELSE probe_last(p, formats, i + 1, config_file)

\* Lines 413-418: the formats are probed in the order given; config_file is
\* the candidate found so far (NoSupportedConfig stands for None).
RECURSIVE probe(_, _, _, _)
probe(p, formats, i, config_file) ==
    IF i > Len(formats) THEN config_file
    ELSE IF p.cand[formats[i]]
    THEN IF config_file # NoSupportedConfig
         THEN MultipleConfigFiles
         ELSE probe(p, formats, i + 1, Candidate(p, formats[i]))
    ELSE probe(p, formats, i + 1, config_file)

\* get_config(path), probing the formats in the order given: the path
\* returned, or the ConfigError raised.
get_config_in(p, formats) ==
    IF p.isfile /\ p.ext # "" /\ p.ext \in {formats[i] : i \in 1..Len(formats)}
    THEN Literal(p)
    ELSE IF p.isdir THEN probe(p, formats, 1, NoSupportedConfig)
    ELSE NoSupportedConfig

GetConfigCall ==
    /\ arg.op = "get_config" /\ ret = Unset
    /\ LET f == get_config_in(arg.data, FORMATS)
       IN  ret' = [out |-> IF f \in {NoSupportedConfig, MultipleConfigFiles}
                           THEN "ConfigError" ELSE "ok",
                   path |-> f]
    /\ UNCHANGED <<fs, exfs, dirMtime, clock, courses, dir_mtime, last, concVars,
                   langVars, treeVars, arg, raceVars>>

InitLocate == InitCall("get_config", PathStates)
NextLocate == GetConfigCall
SpecLocate == InitLocate /\ [][NextLocate]_vars


(***************************************************************************)
(* SpecTags: ConfigParser.process_tags (lines 504-546).                    *)
(***************************************************************************)
\* A parsed document is a tree of nodes: a scalar, None, a list or a
\* mapping from keys to nodes.  An exception raised is a node too.
EmptyMap == [k \in {} |-> k]
Sc(s) == [t |-> "scalar", v |-> s, items |-> <<>>, m |-> EmptyMap]
None == [t |-> "None", v |-> "", items |-> <<>>, m |-> EmptyMap]
Li(l) == [t |-> "list", v |-> "", items |-> l, m |-> EmptyMap]
Mp(f) == [t |-> "map", v |-> "", items |-> <<>>, m |-> f]
Raised(e) == [t |-> e, v |-> "", items |-> <<>>, m |-> EmptyMap]
IsRaised(n) == n.t \in {"ConfigError", "AttributeError", "TypeError"}

\* The mapping keys that are not strings.  YAML gives a mapping the keys it
\* reads: `7: A` is the dict {7: 'A'}, whose key is the integer 7.  The
\* model writes every key as a string, and "7" is that integer key.
NonStringKeys == {"7"}

\* The mapping with the one key k, for every value of S, and the empty one.
Opt(k, S) == {EmptyMap} \cup {k :> x : x \in S}

\* The language codes written in documents, and the default languages
\* process_tags is called with.
TagLangs == {"en", "fi", "sv"}
DefaultLangs == {"en", "fi"}
\* The longest list drawn.
MaxItems == 2

\* Documents with processor tags.  The value of `text|i18n`, nested in the
\* content of a language; the content of a language; the value of
\* `title|i18n`; the documents.  A tagged key may hold a scalar instead of a
\* mapping, and `note|todo` carries a tag that is not supported.
InnerI18n ==
    {Mp(a @@ b @@ c) : a \in Opt("en", {Sc("A")}), b \in Opt("fi", {Sc("A")}),
                       c \in Opt("sv", {Sc("A")})} \cup {Sc("A")}
Contents == {Sc("A"), Sc("B")} \cup {Mp("text|i18n" :> x) : x \in InnerI18n}
OuterI18n ==
    {Mp(a @@ b @@ c) : a \in Opt("en", Contents), b \in Opt("fi", Contents),
                       c \in Opt("sv", Contents)} \cup {Sc("A")}
TaggedDocs ==
    {Mp(a @@ b @@ c @@ d) : a \in Opt("title|i18n", OuterI18n),
                            b \in Opt("title", {Sc("A")}),
                            c \in Opt("view_type", {Sc("A")}),
                            d \in Opt("note|todo", {Sc("A")})}

\* Documents without processor tags, two levels deep.  A mapping may hold
\* the integer key, at the top or nested, alone or beside string keys.
Plain0 == {Sc("A"), None}
Plain1 ==
    Plain0 \cup {Li(l) : l \in UNION {[1..n -> Plain0] : n \in 0..MaxItems}}
           \cup {Mp(a @@ b) : a \in Opt("title", Plain0), b \in Opt("view_type", Plain0)}
           \cup {Mp("7" :> Sc("A"))}
PlainDocs ==
    Plain1 \cup {Mp(a @@ b @@ c @@ d) : a \in Opt("title", Plain1),
                                        b \in Opt("view_type", Plain1),
                                        c \in Opt("items", Plain1),
                                        d \in Opt("7", {Sc("A")})}

\* PROCESSOR_TAG_REGEX.match(k), ^(.+)\|(\w+)$, on the keys of the documents.
tag_match(k) ==
    CASE k = "title|i18n" -> [match |-> TRUE, name |-> "title", tag |-> "i18n"]
      [] k = "text|i18n" -> [match |-> TRUE, name |-> "text", tag |-> "i18n"]
      [] k = "note|todo" -> [match |-> TRUE, name |-> "note", tag |-> "todo"]
      [] OTHER -> [match |-> FALSE, name |-> k, tag |-> ""]

\* sorted(n.keys(), key=lambda x: (len(x), x)) of line 521: the string keys
\* of the documents in that order.  (len(x) of a key that is not a string
\* raises TypeError: see recursion.)
SortedKeys == <<"en", "fi", "sv", "items", "title", "note|todo", "text|i18n",
                "view_type", "title|i18n">>
sorted_keys(f) == SelectSeq(SortedKeys, LAMBDA k : k \in DOMAIN f)

\* The mutated processor: the content of the first language is taken.
i18n_first(value, lg) ==
    IF value.t # "map" THEN Raised("AttributeError")
    ELSE IF DOMAIN value.m = {} THEN None
    ELSE value.m[sorted_keys(value.m)[1]]

\* TAG_PROCESSOR_DICT['i18n'], line 370: value.get(lang).
i18n(value, lg) ==
    IF value.t # "map" THEN Raised("AttributeError")
    ELSE IF lg \in DOMAIN value.m THEN value.m[lg]
    ELSE None

\* TAG_PROCESSOR_DICT['rst'], line 371: the markup renderer's output.
rst(value) == Sc("html")
TAG_PROCESSOR_DICT == {"i18n", "rst"}

\* Lines 523-532, the `while m` loop on one key: the tags are stripped and
\* applied from the right; `langs` are the language codes harvested.
RECURSIVE apply_tags(_, _, _, _, _)
apply_tags(k, v, lg, collect_lang, langs) ==
    LET mt == tag_match(k)
    IN  IF ~mt.match THEN [name |-> k, value |-> v, langs |-> langs]
        ELSE LET seen == IF collect_lang /\ mt.tag = "i18n" /\ v.t = "map"
                         THEN langs \cup DOMAIN v.m ELSE langs
             IN  IF mt.tag \notin TAG_PROCESSOR_DICT
                 THEN [name |-> mt.name, value |-> Raised("ConfigError"),
                       langs |-> seen]
                 ELSE LET v2 == IF mt.tag = "i18n" THEN i18n(v, lg) ELSE rst(v)
                      IN  IF IsRaised(v2)
                          THEN [name |-> mt.name, value |-> v2, langs |-> seen]
                          ELSE apply_tags(mt.name, v2, lg, collect_lang, seen)

\* recursion(n, lang, collect_lang) of lines 518-538: the node built (or the
\* exception raised) and the language codes harvested.  recursion_dict is
\* the loop of lines 521-533 from the i-th key on, d the dict built so far;
\* recursion_list is the comprehension of line 536.  The sort of line 521
\* takes len(x) of every key before it orders them, so a mapping with a key
\* that is not a string raises TypeError before any key is visited.
RECURSIVE recursion(_, _, _)
RECURSIVE recursion_dict(_, _, _, _, _, _, _)
RECURSIVE recursion_list(_, _, _, _, _, _)
recursion_dict(n, lg, collect_lang, keys, i, d, langs) ==
    IF i > Len(keys) THEN [node |-> Mp(d), langs |-> langs]
    ELSE LET a == apply_tags(keys[i], n.m[keys[i]], lg, collect_lang, langs)
         IN  IF IsRaised(a.value) THEN [node |-> a.value, langs |-> a.langs]
             ELSE LET r == recursion(a.value, lg, collect_lang)
                  IN  IF IsRaised(r.node)
                      THEN [node |-> r.node, langs |-> a.langs \cup r.langs]
                      ELSE recursion_dict(n, lg, collect_lang, keys, i + 1,
                                          update(d, a.name :> r.node),
                                          a.langs \cup r.langs)

recursion_list(l, lg, collect_lang, i, built, langs) ==
    IF i > Len(l) THEN [node |-> Li(built), langs |-> langs]
    ELSE LET r == recursion(l[i], lg, collect_lang)
         IN  IF IsRaised(r.node) THEN [node |-> r.node, langs |-> langs \cup r.langs]
             ELSE recursion_list(l, lg, collect_lang, i + 1,
                                 Append(built, r.node), langs \cup r.langs)

recursion(n, lg, collect_lang) ==
    IF n.t = "map"
    THEN IF DOMAIN n.m \cap NonStringKeys # {}
         THEN [node |-> Raised("TypeError"), langs |-> {}]
         ELSE recursion_dict(n, lg, collect_lang, sorted_keys(n.m), 1, EmptyMap, {})
    ELSE IF n.t = "list"
    THEN recursion_list(n.items, lg, collect_lang, 1, <<>>, {})
    ELSE [node |-> n, langs |-> {}]

\* process_tags(data, default_lang): the outcomes the call can have.  `data`
\* is the mapping returned, from language code to variant.  The languages
\* harvested are visited in the order of a set (line 542), so when several
\* of their passes raise, any of these exceptions can be the one raised.
process_tags(data, dlang) ==
    LET default == recursion(data, dlang, TRUE)
    IN  IF IsRaised(default.node)
        THEN {[out |-> default.node.t, data |-> EmptyMap]}
        ELSE LET others == default.langs \ {dlang}
                 pass == [l \in others |-> recursion(data, l, FALSE).node]
                 raised == {l \in others : IsRaised(pass[l])}
             IN  IF raised # {}
                 THEN {[out |-> pass[l].t, data |-> EmptyMap] : l \in raised}
                 ELSE {[out |-> "ok",
                        data |-> [l \in others \cup {dlang} |->
                                     IF l = dlang THEN default.node
                                     ELSE pass[l]]]}

\* The call.  `doc` is the caller's document as the call leaves it:
\* recursion builds a new dict (line 520) and a new list (line 536) and the
\* processors only read their value (lines 370-371), so no part of the
\* input is assigned to.
ProcessTags ==
    /\ arg.op = "process_tags" /\ ret = Unset
    /\ \E r \in process_tags(arg.data.doc, arg.data.lang) :
          ret' = [out |-> r.out, data |-> r.data, doc |-> arg.data.doc]
    /\ UNCHANGED <<fs, exfs, dirMtime, clock, courses, dir_mtime, last, concVars,
                   langVars, treeVars, arg, raceVars>>

InitTags ==
    InitCall("process_tags", [doc : TaggedDocs \cup PlainDocs, lang : DefaultLangs])
NextTags == ProcessTags
SpecTags == InitTags /\ [][NextTags]_vars



(***************************************************************************)
(* SpecVariants: ExerciseConfig.data_for_language (lines 50-62).           *)
(***************************************************************************)
\* The variant sets: self.data as the language codes in the order they were
\* inserted (process_tags inserts the default language first), each holding
\* the variant of that language.  A variant set holds at least one variant.
VariantOrders ==
    {o \in UNION {[1..n -> TagLangs] : n \in 1..Cardinality(TagLangs)} :
        \A i, j \in 1..Len(o) : i # j => o[i] # o[j]}
VariantOf(l) == Mp("title" :> Sc(l))
\* The `lang` argument: a language code, None, or the selector '_root'.
Selectors == TagLangs \cup {"de", "None", "_root"}
Requests == [order : VariantOrders, course_lang : TagLangs, selector : Selectors]

\* The mutated order: the configured language is tried first.
lookup_order_default_first(lg, course_lang) == <<course_lang, lg>>

\* Line 55: for lang in (lang, self.course.lang).
lookup_order(lg, course_lang) == <<lg, course_lang>>

\* data_for_language(lang) on the record whose data is `data` (keys in the
\* order `order`): what is returned, and self.data as the call leaves it
\* (line 58 writes `lang` into the variant returned).
data_for_language(order, data, course_lang, lg) ==
    IF lg = "_root" THEN [out |-> "ok", root |-> TRUE, variant |-> None, data |-> data]
    ELSE LET tries == SelectSeq(lookup_order(lg, course_lang),
                                LAMBDA l : l \in DOMAIN data)
         IN  IF Len(tries) > 0
             THEN LET stamped == Mp(update(data[tries[1]].m, "lang" :> Sc(tries[1])))
                  IN  [out |-> "ok", root |-> FALSE, variant |-> stamped,
                       data |-> [data EXCEPT ![tries[1]] = stamped]]
             ELSE IF Len(order) = 0
             THEN [out |-> "IndexError", root |-> FALSE, variant |-> None, data |-> data]
             ELSE [out |-> "ok", root |-> FALSE, variant |-> data[order[1]],
                   data |-> data]

\* The variant set of a request.
DataOf(r) == [l \in {r.order[i] : i \in 1..Len(r.order)} |-> VariantOf(l)]

DataForLanguage ==
    /\ arg.op = "data_for_language" /\ ret = Unset
    /\ ret' = data_for_language(arg.data.order, DataOf(arg.data),
                                arg.data.course_lang, arg.data.selector)
    /\ UNCHANGED <<fs, exfs, dirMtime, clock, courses, dir_mtime, last, concVars,
                   langVars, treeVars, arg, raceVars>>

InitVariants == InitCall("data_for_language", Requests)
NextVariants == DataForLanguage
SpecVariants == InitVariants /\ [][NextVariants]_vars


(***************************************************************************)
(* SpecLoad: lines 183-200 of CourseConfig.exercise_config, on the         *)
(* document ExerciseConfig.load has returned for exercise ExKey.           *)
(***************************************************************************)
Num(n) == [t |-> "number", v |-> ToString(n), items |-> <<>>, m |-> EmptyMap]
\* The documents loaded: the tagged ones, and those that are no mapping or
\* are empty.
LoadDocs ==
    TaggedDocs \cup {Mp(EmptyMap), Li(<<>>), Li(<<Sc("A")>>), Sc("A")}

\* `not data`, line 183.
falsy(n) ==
    \/ n.t = "None"
    \/ n.t = "map" /\ DOMAIN n.m = {}
    \/ n.t = "list" /\ Len(n.items) = 0

\* The mutated check: only the first field name is looked for.
check_fields_first(data, field_names) ==
    IF data.t = "map" /\ field_names[1] \in DOMAIN data.m THEN "ok" ELSE "ConfigError"

\* check_fields(file_name, data, field_names), lines 387-389.  Of the
\* documents drawn only a mapping can contain a field name (`name not in
\* data` is true for their lists and scalar strings).
check_fields(data, field_names) ==
    IF data.t = "map" /\ \A i \in 1..Len(field_names) : field_names[i] \in DOMAIN data.m
    THEN "ok" ELSE "ConfigError"

\* Lines 190-191: version["key"] = exercise_key; version["mtime"] = t.
stamp(version, exercise_key, t) ==
    Mp(update(version.m, ("key" :> Sc(exercise_key)) @@ ("mtime" :> Num(t))))

\* No record, and the record an earlier load of ExKey has stored.
NoExercise == [file |-> "none", mtime |-> 0, ptime |-> 0, data |-> EmptyMap]
EarlierExercise ==
    [file |-> "e1.json", mtime |-> 1, ptime |-> 1,
     data |-> ("en" :> stamp(Mp(("title" :> Sc("A")) @@ ("view_type" :> Sc("A"))),
                             ExKey, 1))]

\* Lines 183-200 for the document `data` read from a file of mtime t, at
\* time `now`: the outcomes possible, each with the value of self.exercises
\* it leaves.
store_exercise(exercises, data, dlang, t, now) ==
    IF falsy(data)
    THEN {[out |-> "None", rec |-> NoExercise, exercises |-> exercises]}
    ELSE {IF p.out # "ok"
          THEN [out |-> p.out, rec |-> NoExercise, exercises |-> exercises]
          ELSE IF \E l \in DOMAIN p.data :
                      check_fields(p.data[l], <<"title", "view_type">>) # "ok"
          THEN [out |-> "ConfigError", rec |-> NoExercise, exercises |-> exercises]
          ELSE LET exercise_root ==
                       [file |-> "e1.json", mtime |-> t, ptime |-> now,
                        data |-> [l \in DOMAIN p.data |-> stamp(p.data[l], ExKey, t)]]
               IN  [out |-> "ok", rec |-> exercise_root,
                    exercises |-> [exercises EXCEPT ![ExKey] = exercise_root]]
          : p \in process_tags(data, dlang)}

LoadExercise ==
    /\ arg.op = "exercise_config" /\ ret = Unset
    /\ ret' \in store_exercise(arg.data.exercises, arg.data.doc, arg.data.lang,
                               arg.data.t, arg.data.t + 1)
    /\ UNCHANGED <<fs, exfs, dirMtime, clock, courses, dir_mtime, last, concVars,
                   langVars, treeVars, arg, raceVars>>

InitLoad ==
    InitCall("exercise_config",
             [doc : LoadDocs, lang : DefaultLangs, t : {2},
              exercises : {[e \in {ExKey} |-> NoExercise],
                           [e \in {ExKey} |-> EarlierExercise]}])
NextLoad == LoadExercise
SpecLoad == InitLoad /\ [][NextLoad]_vars


(***************************************************************************)
(* SpecFlatten: the flattening of data["modules"] in CourseConfig.get      *)
(* (lines 273-295).                                                        *)
(***************************************************************************)
\* The most children drawn for a module.
MaxFlat == 2
\* An optional field of an item: absent, or present with a string (for
\* `key` also an integer, as a YAML document can give one).
Missing == [in |-> FALSE, int |-> FALSE, s |-> "", n |-> 0]
Text(s) == [in |-> TRUE, int |-> FALSE, s |-> s, n |-> 0]
Number(n) == [in |-> TRUE, int |-> TRUE, s |-> "", n |-> n]
FlatItem(k, c, ty, ch) == [key |-> k, config |-> c, type |-> ty, children |-> ch]

\* The items below a module: leaves, and items with one child.
FlatGrandchildren ==
    {FlatItem(Text("e2"), c, Missing, <<>>) : c \in {Missing, Text("own2.yaml")}}
FlatLeaves ==
    {FlatItem(k, c, ty, <<>>) : k \in {Missing, Text("e1"), Number(7)},
                                c \in {Missing, Text(""), Text("own.yaml")},
                                ty \in {Missing, Text("t1")}}
FlatParents ==
    {FlatItem(k, c, Missing, <<g>>) : k \in {Missing, Text("e1")},
                                      c \in {Missing, Text("own.yaml")},
                                      g \in FlatGrandchildren}
FlatItems == FlatLeaves \cup FlatParents
\* data["modules"]: a module with up to MaxFlat children, alone or followed
\* by a second module.
SecondModule == <<FlatItem(Text("e3"), Text("own3.yaml"), Missing, <<>>)>>
FlatModules ==
    LET first == UNION {[1..n -> FlatItems] : n \in 0..MaxFlat}
    IN  {<<ch>> : ch \in first} \cup {<<ch, SecondModule>> : ch \in first}
\* data["exercise_types"]: absent, or a mapping from type name to an entry
\* with or without `config`.
NoTypes == [in |-> FALSE, types |-> EmptyMap]
Types(f) == [in |-> TRUE, types |-> f]
ExerciseTypes ==
    {NoTypes, Types("t1" :> Text("t1.yaml")), Types("t1" :> Missing),
     Types("t2" :> Text("t2.yaml"))}
FlatDocs == [modules : FlatModules, exercise_types : ExerciseTypes]

\* str(exercise_vars["key"]), line 280.
str(k) == IF k.int THEN ToString(k.n) ELSE k.s

\* The mutated lookup: the config of the exercise type comes first.
resolve_config_type_first(exercise_vars, et) ==
    IF exercise_vars.type.in /\ et.in /\ exercise_vars.type.s \in DOMAIN et.types
            /\ et.types[exercise_vars.type.s].in
    THEN et.types[exercise_vars.type.s]
    ELSE IF exercise_vars.config.in THEN exercise_vars.config
    ELSE Missing

\* Lines 281-287: cfg, Missing standing for None.
resolve_config(exercise_vars, et) ==
    IF exercise_vars.config.in THEN exercise_vars.config
    ELSE IF exercise_vars.type.in /\ et.in /\ exercise_vars.type.s \in DOMAIN et.types
            /\ et.types[exercise_vars.type.s].in
    THEN et.types[exercise_vars.type.s]
    ELSE Missing

\* `if cfg:`, line 288.
truthy(cfg) == cfg.in /\ cfg.s # ""

\* recurse_exercises(parent), lines 276-291, from the i-th child of the
\* list `children` on; acc holds `keys` and `config_files`.
RECURSIVE recurse_exercises(_, _, _, _)
recurse_exercises(children, i, et, acc) ==
    IF i > Len(children) THEN acc
    ELSE LET exercise_vars == children[i]
             cfg == resolve_config(exercise_vars, et)
             acc2 == IF exercise_vars.key.in /\ truthy(cfg)
                     THEN [keys |-> Append(acc.keys, str(exercise_vars.key)),
                           config_files |->
                               update(acc.config_files, str(exercise_vars.key) :> cfg.s)]
                     ELSE acc
             acc3 == recurse_exercises(exercise_vars.children, 1, et, acc2)
         IN  recurse_exercises(children, i + 1, et, acc3)

\* Lines 292-293: for module in data["modules"].
RECURSIVE flatten_modules(_, _, _, _)
flatten_modules(modules, i, et, acc) ==
    IF i > Len(modules) THEN acc
    ELSE flatten_modules(modules, i + 1, et,
                         recurse_exercises(modules[i], 1, et, acc))

\* Lines 273-295: data["exercises"] and data["config_files"].
flatten(d) ==
    LET r == flatten_modules(d.modules, 1, d.exercise_types,
                             [keys |-> <<>>, config_files |-> EmptyMap])
    IN  [out |-> "ok", exercises |-> r.keys, config_files |-> r.config_files]

Flatten ==
    /\ arg.op = "flatten" /\ ret = Unset
    /\ ret' = flatten(arg.data)
    /\ UNCHANGED <<fs, exfs, dirMtime, clock, courses, dir_mtime, last, concVars,
                   langVars, treeVars, arg, raceVars>>

InitFlatten == InitCall("flatten", FlatDocs)
NextFlatten == Flatten
SpecFlatten == InitFlatten /\ [][NextFlatten]_vars


(***************************************************************************)
(* SpecRace: one call after another of exercise_config(ExKey), step by     *)
(* step, while a writer rewrites the exercise file.                        *)
(***************************************************************************)
\* The writer stops after the file has got this many versions.
MaxVersions == 4

\* race.file     the exercise file: its mtime and the version of its content
\* race.pc       where the call is: "idle", or the line it executes next
\* race.data, race.t   the locals of ExerciseConfig.load
\* race.cached   self.exercises[ExKey]: present or not, its mtime, and the
\*               version of the content its data was parsed from
\* race.hit      the call that returned last returned the cached record
RaceStep(r) ==
    /\ race' = r
    /\ UNCHANGED <<fs, exfs, dirMtime, clock, courses, dir_mtime, last, concVars,
                   langVars, treeVars, callVars>>

\* The external writer: new content, and a later mtime.
RaceWrite ==
    /\ race.file.content < MaxVersions
    /\ RaceStep([race EXCEPT !.file = [mtime |-> @.mtime + 1, content |-> @.content + 1],
                             !.hit = FALSE])

\* Lines 161-167: the cached record is returned when it is not older than
\* the file.
R161_hit ==
    /\ race.pc = "idle"
    /\ race.cached.in /\ race.cached.mtime >= race.file.mtime
    /\ RaceStep([race EXCEPT !.hit = TRUE])

R161_miss ==
    /\ race.pc = "idle"
    /\ ~(race.cached.in /\ race.cached.mtime >= race.file.mtime)
    /\ RaceStep([race EXCEPT !.pc = "l79", !.hit = FALSE])

\* Line 79: config_file = ConfigParser.get_config(...).
L79 ==
    /\ race.pc = "l79"
    /\ RaceStep([race EXCEPT !.pc = "l80"])

\* Line 80: data = ConfigParser.parse(config_file).
L80 ==
    /\ race.pc = "l80"
    /\ RaceStep([race EXCEPT !.pc = "l83", !.data = race.file.content])

\* Line 83: os.path.getmtime(config_file), read after the parse.
L83 ==
    /\ race.pc = "l83"
    /\ RaceStep([race EXCEPT !.pc = "l193", !.t = race.file.mtime])

\* Lines 193-200: the record is stored and returned.
R193 ==
    /\ race.pc = "l193"
    /\ RaceStep([race EXCEPT !.pc = "idle",
                             !.cached = [in |-> TRUE, mtime |-> race.t,
                                         content |-> race.data]])

InitRace ==
    /\ race = [file |-> [mtime |-> 1, content |-> 1], pc |-> "idle",
               data |-> 0, t |-> 0, hit |-> FALSE,
               cached |-> [in |-> FALSE, mtime |-> 0, content |-> 0]]
    /\ InitFiles
    /\ courses = [k \in CourseKeys |-> NoRec]
    /\ dir_mtime = 0
    /\ last = NoCall("init")
    /\ ConcIdle /\ LangIdle /\ TreeIdle /\ CallIdle

NextRace ==
    \/ RaceWrite
    \/ R161_hit
    \/ R161_miss
    \/ L79
    \/ L80
    \/ L83
    \/ R193

SpecRace == InitRace /\ [][NextRace]_vars


(***************************************************************************)
(* Properties of Spec and SpecEx.  `last` describes the call just made;     *)
(* the writer resets it, so while last.op names a call the files are the   *)
(* ones the call saw.                                                      *)
(***************************************************************************)
\* The index file of course k currently loads: one index file is located,
\* it parses to a document, and the document has `name`.
Loadable(k) == load_course(k, clock).out = "built"

\* The file the record cached for k before the call was loaded from.
PreFile(k) == fs[k][last.pre[k].file]

\* The exercise record cached for e of course k before the call, and the
\* file it was loaded from.
PreEx(k, e) == last.pre[k].exercises[e]
PreExFile(k, e) == ExDir(k, e)[PreEx(k, e).file]

GetOnCached(k) ==
    /\ last.op = "get" /\ last.key = k
    /\ last.pre[k] # NoRec
    /\ PreFile(k).ex

GetHit(k) ==
    /\ last.out = "hit"
    /\ last.rec = last.pre[k]
    /\ courses = last.pre
    /\ clock = last.preClock

GetReloaded(k) ==
    /\ last.out = "loaded"
    /\ last.rec = courses[k]
    /\ last.rec.mtime = PreFile(k).mtime
    /\ last.rec.ptime > last.pre[k].ptime

GetFailed ==
    /\ last.out \in {"None", "ConfigError", "YAMLError"}
    /\ courses = last.pre

CourseProbeFails(k) ==
    /\ last.op = "get" /\ last.key = k
    /\ last.pre[k] # NoRec
    /\ ~PreFile(k).ex

ExerciseProbeFails(k, e) ==
    /\ last.op = "exercise_config" /\ last.key = k /\ last.ekey = e
    /\ InList(e)
    /\ PreEx(k, e) # NoEx
    /\ ~PreExFile(k, e).ex

\* C2 as stated: when the mtime probe of a cached course or exercise record
\* fails (its file is missing), the cached record is returned unchanged, no
\* reload is attempted and no error is raised.
C2_Original ==
    \A k \in CourseKeys :
        /\ CourseProbeFails(k) =>
              last.out = "hit" /\ last.rec = last.pre[k] /\ courses = last.pre
        /\ \A e \in ExKeys :
              ExerciseProbeFails(k, e) =>
                  last.out = "hit" /\ last.exrec = PreEx(k, e) /\ courses = last.pre

\* What the code does instead (lines 246-247 and 166-167, "except OSError:
\* pass"): the probe's error is swallowed and control falls through to the
\* reload, against the documented "still fresh" tolerance.  get returns None
\* and keeps the cache when no single index file is located, and otherwise
\* loads the file that is located; exercise_config raises the locator's
\* ConfigError when no single exercise file is located, and otherwise loads
\* the file that is located.
ProbeErrorFallsThrough ==
    \A k \in CourseKeys :
        /\ CourseProbeFails(k) =>
              IF IsConfigError(get_config(fs[k]))
              THEN last.out = "None" /\ courses = last.pre
              ELSE IF Loadable(k)
              THEN /\ last.out = "loaded"
                   /\ last.rec = courses[k]
                   /\ last.rec.file = get_config(fs[k])
              ELSE last.out \in {"ConfigError", "YAMLError"} /\ courses = last.pre
        /\ \A e \in ExKeys :
              ExerciseProbeFails(k, e) =>
                  IF IsConfigError(get_config(ExDir(k, e)))
                  THEN last.out = "ConfigError" /\ courses = last.pre
                  ELSE /\ last.out # "hit"
                       /\ last.out = "loaded" =>
                             /\ last.exrec = courses[k].exercises[e]
                             /\ last.exrec.file = get_config(ExDir(k, e))

\* A cached exercise whose file was removed: the call raises.
ProbeErrorRaises ==
    \E k \in CourseKeys, e \in ExKeys :
        ExerciseProbeFails(k, e) /\ last.out = "ConfigError"

\* The directory mtime had advanced past _dir_mtime when the call began.
DirAdvanced == last.preDir < dirMtime

\* C3 as stated: when the directory mtime has advanced, a reloading get(k)
\* and all() empty the whole cache first, so entries of other courses are
\* dropped; when it has not, no entry other than the reloaded one is removed.
C3_Original ==
    /\ \A k \in CourseKeys :
          last.op = "get" /\ last.key = k /\ last.out = "loaded" =>
              \A j \in CourseKeys \ {k} :
                  IF DirAdvanced THEN courses[j] = NoRec ELSE courses[j] = last.pre[j]
    /\ last.op = "all" =>
          IF DirAdvanced
          THEN \A j \in CourseKeys :
                  courses[j] # NoRec => courses[j].ptime > last.preClock
          ELSE courses = last.pre

\* C3 amended: only all() empties the cache.  all() that finds the directory
\* mtime advanced drops every entry first (what the cache holds afterwards
\* was parsed during the call) and records the directory mtime; all() that
\* finds it not advanced removes nothing.  get(k) never removes or replaces
\* the entry of another course and never touches _dir_mtime, whether the
\* directory mtime has advanced or not.
C3_Amended ==
    /\ \A k \in CourseKeys :
          last.op = "get" /\ last.key = k =>
              /\ \A j \in CourseKeys \ {k} : courses[j] = last.pre[j]
              /\ dir_mtime = last.preDir
    /\ last.op = "all" =>
          IF DirAdvanced
          THEN /\ \A j \in CourseKeys :
                     courses[j] # NoRec => courses[j].ptime > last.preClock
               /\ dir_mtime = dirMtime
          ELSE courses = last.pre /\ dir_mtime = last.preDir

C3_Witness ==
    /\ last.op = "all"
    /\ \E j \in CourseKeys :
          /\ last.pre[j] # NoRec
          /\ fs[j][last.pre[j].file].ex
          /\ fs[j][last.pre[j].file].mtime <= last.pre[j].mtime
          /\ courses[j] # NoRec
          /\ courses[j].ptime > last.pre[j].ptime

\* C4: when all() enumerates the registry, it does not raise, and every
\* registry course that loads successfully is in the returned collection,
\* whatever makes another course fail to load.
C4_Original ==
    last.op = "all" /\ last.enumerated =>
        /\ last.out = "returned"
        /\ \A k \in CourseKeys : Loadable(k) => courses[k] # NoRec

\* The record cached for k was loaded from the index file now in place and
\* is not older than it.
FreshNow(k) ==
    /\ courses[k] # NoRec
    /\ courses[k].file = get_config(fs[k])
    /\ courses[k].mtime >= fs[k][courses[k].file].mtime

\* C5 as stated: after every call of all() the returned collection holds,
\* for each registry course whose index file loads, a record fresh with
\* respect to that file's current mtime.
C5_Original ==
    last.op = "all" /\ last.out = "returned" =>
        \A k \in CourseKeys : Loadable(k) => FreshNow(k)

\* C5 amended: all() calls get() for the registry's courses only when it
\* finds the directory mtime advanced past _dir_mtime; the collection such a
\* call returns holds a fresh record for each course whose index file loads.
\* A call that finds the directory mtime not advanced calls no get() and
\* returns the cache as it is.
C5_Amended ==
    last.op = "all" /\ last.out = "returned" =>
        IF DirAdvanced
        THEN /\ last.enumerated
             /\ \A k \in CourseKeys : Loadable(k) => FreshNow(k)
        ELSE ~last.enumerated /\ courses = last.pre /\ clock = last.preClock

C5_Witness ==
    /\ last.op = "all" /\ last.out = "returned" /\ last.enumerated
    /\ \E k \in CourseKeys : Loadable(k) /\ FreshNow(k) /\ last.pre[k] = NoRec
    /\ \E k \in CourseKeys : ~Loadable(k)

ExerciseCall(k, e) ==
    last.op = "exercise_config" /\ last.key = k /\ last.ekey = e

ExerciseHit(k, e) ==
    /\ last.out = "hit"
    /\ last.exrec = PreEx(k, e)
    /\ courses = last.pre

\* Parts of C7 that hold as stated: a key outside the exercise list gives
\* None and changes nothing; an entry changes only by a load of that entry;
\* the record get() stores has an empty exercise map.
C7_Frame ==
    \A k \in CourseKeys :
        /\ \A e \in ExKeys :
              ExerciseCall(k, e) =>
                  /\ \A j \in CourseKeys \ {k} : courses[j] = last.pre[j]
                  /\ ~InList(e) => last.out = "None" /\ courses = last.pre
                  /\ courses # last.pre =>
                        /\ InList(e)
                        /\ last.out = "loaded"
                        /\ courses[k] = [last.pre[k] EXCEPT !.exercises[e] = last.exrec]
                        /\ last.exrec.ptime > last.preClock
        /\ last.op = "get" /\ last.key = k /\ last.out = "loaded" =>
              courses[k].exercises = NoExercises

\* C7 as stated: exercise_config(e) creates or replaces c.exercises[e] only
\* when no record exists or the file's mtime has advanced past the cached
\* mtime, and otherwise returns the cached record and leaves the map alone.
C7_Original ==
    /\ C7_Frame
    /\ \A k \in CourseKeys, e \in ExKeys :
          ExerciseCall(k, e) /\ InList(e) /\ PreEx(k, e) # NoEx =>
              IF PreExFile(k, e).ex /\ PreExFile(k, e).mtime > PreEx(k, e).mtime
              THEN last.out # "hit"
              ELSE ExerciseHit(k, e)

\* What the code does: the cached record is also given up when the mtime
\* probe of its file fails (lines 166-167, the fall-through of C2): a reload
\* is attempted then, which replaces the entry if another exercise file is
\* located and loads, and raises otherwise.  The cached record is returned,
\* and the map left alone, exactly when the file exists and its mtime has
\* not advanced past the cached mtime.
ExerciseHitIffProbeSucceeds ==
    /\ C7_Frame
    /\ \A k \in CourseKeys, e \in ExKeys :
          ExerciseCall(k, e) /\ InList(e) /\ PreEx(k, e) # NoEx =>
              IF PreExFile(k, e).ex /\ PreExFile(k, e).mtime <= PreEx(k, e).mtime
              THEN ExerciseHit(k, e)
              ELSE last.out # "hit"

\* A cached exercise whose file advanced is reloaded and stored.
ExerciseReloaded ==
    \E k \in CourseKeys, e \in ExKeys :
        /\ ExerciseCall(k, e) /\ InList(e) /\ PreEx(k, e) # NoEx
        /\ PreExFile(k, e).ex /\ PreExFile(k, e).mtime > PreEx(k, e).mtime
        /\ last.out = "loaded"
        /\ courses[k].exercises[e] = last.exrec

(***************************************************************************)
(* Properties of SpecLang and SpecTree.                                    *)
(***************************************************************************)
\* C10: the default language of a loaded record is the first element of a
\* `language` list, the `language` string itself, or "en" when the field is
\* absent.
C10_Original ==
    lang # "unset" =>
        /\ doc.language.type = "list" /\ Len(doc.language.list) > 0 =>
              lang = doc.language.list[1]
        /\ doc.language.type = "str" => lang = doc.language.str
        /\ doc.language.type = "absent" => lang = "en"

\* The keys of all items of the document, at any depth, module by module.
RECURSIVE AllItemKeys(_, _)
AllItemKeys(modules, i) ==
    IF i > Len(modules) THEN <<>>
    ELSE child_keys(modules[i]) \o AllItemKeys(modules, i + 1)

\* The categories of all items below p, at any depth.
RECURSIVE DeepCategories(_)
DeepCategories(p) ==
    UNION {{p.children[i].category} \cup DeepCategories(p.children[i]) :
               i \in 1..Len(p.children)}

\* C8: no accepted course document holds two learning objects with the same
\* key anywhere in the module tree, also not in different modules.
C8_Original ==
    validation = "accepted" =>
        LET keys == AllItemKeys(course_doc.modules, 1)
        IN  \A i, j \in 1..Len(keys) : i # j => keys[i] # keys[j]

\* C9: no accepted course document holds an item, at any depth, whose
\* category is not declared in `categories`.
C9_Original ==
    validation = "accepted" =>
        \A i \in 1..Len(course_doc.modules) :
            DeepCategories(course_doc.modules[i]) \subseteq course_doc.categories

(***************************************************************************)
(* Properties of SpecConc.                                                 *)
(***************************************************************************)
\* C6: under any interleaving of get and all, every get(k) returns a
\* complete record of course k, every all() returns the complete set of
\* loadable courses, and every cache entry maps a key to a complete record
\* of that key.
C6_Original ==
    /\ \A t \in Threads :
          th[t].pc = "done" =>
              /\ th[t].op = "get" /\ Loadable(th[t].key) =>
                    /\ th[t].out \in {"hit", "loaded"}
                    /\ th[t].rec.key = th[t].key
                    /\ th[t].rec.file \in Formats
              /\ th[t].op = "all" =>
                    /\ th[t].out = "returned"
                    /\ th[t].ret = {k \in CourseKeys : Loadable(k)}
    /\ \A k \in CourseKeys :
          courses[k] # NoRec => courses[k].key = k /\ courses[k].file \in Formats

\* The part of C6 about the records: whatever get returns or the cache
\* holds is a complete record of the right course.
C6_Records ==
    /\ \A t \in Threads :
          th[t].pc = "done" /\ th[t].op = "get" /\ th[t].out \in {"hit", "loaded"} =>
              th[t].rec.key = th[t].key /\ th[t].rec.file \in Formats
    /\ \A k \in CourseKeys :
          courses[k] # NoRec => courses[k].key = k /\ courses[k].file \in Formats

\* The part of C6 about all(): it returns every loadable course.
C6_AllComplete ==
    \A t \in Threads :
        th[t].pc = "done" /\ th[t].op = "all" =>
            th[t].out = "returned" /\ th[t].ret = {k \in CourseKeys : Loadable(k)}

\* The part of C6 about get(): it does not raise for a loadable course.
C6_GetReturns ==
    \A t \in Threads :
        th[t].pc = "done" /\ th[t].op = "get" /\ Loadable(th[t].key) =>
            th[t].out \in {"hit", "loaded"}

(***************************************************************************)
(* C11: include resolution.                                                *)
(***************************************************************************)
\* The merge the claim describes, from entry i on: the includes in list
\* order, a collision without force an error, with force the later value.
RECURSIVE ClaimedMerge(_, _, _)
ClaimedMerge(acc, l, i) ==
    IF i > Len(l) THEN [out |-> "ok", data |-> acc]
    ELSE IF l[i].file \in {"absent", "missing"}
    THEN [out |-> "ConfigError", data |-> acc]
    ELSE IF ~l[i].force /\ DOMAIN l[i].content \cap DOMAIN acc # {}
    THEN [out |-> "ConfigError", data |-> acc]
    ELSE ClaimedMerge(update(acc, l[i].content), l, i + 1)

IncludeDone == arg.op = "_include" /\ ret.out # "unset"

\* C11 as stated: the accumulator starts with the host's keys and every
\* include is merged in list order: new keys are added, a collision without
\* `force` raises ConfigError, with `force` the later value wins.
C11_Original ==
    IncludeDone =>
        LET want == ClaimedMerge(arg.data.own, arg.data.include, 1)
        IN  /\ ret.out = want.out
            /\ want.out = "ok" => ret.data = want.data

\* The includes the code can load at all: YAML files rendered through
\* template_context.  For these the merge is as the claim describes.
C11_Rendered ==
    (/\ IncludeDone
     /\ \A i \in 1..Len(arg.data.include) :
            LET e == arg.data.include[i]
            IN  e.file \in {"absent", "missing"}
                    \/ (e.file = "yaml" /\ e.template_context))
        => LET want == ClaimedMerge(arg.data.own, arg.data.include, 1)
           IN  /\ ret.out = want.out
               /\ want.out = "ok" => ret.data = want.data

(***************************************************************************)
(* C12: the file locator.                                                  *)
(***************************************************************************)
LocateDone == arg.op = "get_config" /\ ret.out # "unset"
Existing(p) == {f \in Formats : p.cand[f]}
Reverse(s) == [i \in 1..Len(s) |-> s[Len(s) + 1 - i]]

\* C12: get_config returns the literal path when it is an existing file with
\* extension json or yaml; otherwise the one existing candidate among
\* path.json and path.yaml, "No supported config" when there is none (or the
\* parent directory is missing) and "Multiple config files" when there are
\* two; probing the formats in the other order gives the same outcome.
C12_Locate ==
    LocateDone =>
        LET p == arg.data
        IN  /\ IF p.isfile /\ p.ext \in {"json", "yaml"}
               THEN ret.path = Literal(p)
               ELSE CASE Cardinality(Existing(p)) = 0 -> ret.path = NoSupportedConfig
                      [] Cardinality(Existing(p)) = 1 ->
                            \E f \in Existing(p) : ret.path = Candidate(p, f)
                      [] OTHER -> ret.path = MultipleConfigFiles
            /\ ret.path = get_config_in(p, Reverse(FORMATS))

\* Both candidates exist next to a path that is no config file itself, and
\* the call has raised.
C12_Witness ==
    /\ LocateDone
    /\ Cardinality(Existing(arg.data)) = 2
    /\ ~arg.data.isfile
    /\ ret.path = MultipleConfigFiles

(***************************************************************************)
(* C13, C14: the tag processor.                                            *)
(***************************************************************************)
TagsDone == arg.op = "process_tags" /\ ret.out # "unset"
IsI18nKey(k) == tag_match(k).match /\ tag_match(k).tag = "i18n"

\* Every language code that is a sub-key of an i18n-tagged mapping anywhere
\* in the document.
RECURSIVE AllI18nLangs(_)
AllI18nLangs(n) ==
    IF n.t = "map"
    THEN UNION {IF IsI18nKey(k) /\ n.m[k].t = "map"
                THEN DOMAIN n.m[k].m
                        \cup UNION {AllI18nLangs(n.m[k].m[l]) : l \in DOMAIN n.m[k].m}
                ELSE AllI18nLangs(n.m[k]) : k \in DOMAIN n.m}
    ELSE IF n.t = "list"
    THEN UNION {AllI18nLangs(n.items[i]) : i \in 1..Len(n.items)}
    ELSE {}

\* The language codes of the i18n-tagged mappings that are not nested in
\* the content another i18n-tagged mapping holds for a language other than
\* d: the mappings the pass for language d comes to.
RECURSIVE ReachedLangs(_, _)
ReachedLangs(n, d) ==
    IF n.t = "map"
    THEN UNION {IF IsI18nKey(k) /\ n.m[k].t = "map"
                THEN DOMAIN n.m[k].m
                        \cup (IF d \in DOMAIN n.m[k].m
                              THEN ReachedLangs(n.m[k].m[d], d) ELSE {})
                ELSE ReachedLangs(n.m[k], d) : k \in DOMAIN n.m}
    ELSE IF n.t = "list"
    THEN UNION {ReachedLangs(n.items[i], d) : i \in 1..Len(n.items)}
    ELSE {}

\* The call was made on a document with `title|i18n` and has returned.
I18nProcessed ==
    /\ TagsDone /\ ret.out = "ok"
    /\ arg.data.doc.t = "map" /\ "title|i18n" \in DOMAIN arg.data.doc.m

\* In the variant of every language l, `title|i18n` is replaced by `title`
\* holding what the mapping gives for l: None when it has no entry for l, the
\* scalar it has, or the mapping it has with its own `text|i18n` replaced by
\* `text` in the same way.
VariantsResolved ==
    LET v == arg.data.doc.m["title|i18n"]
    IN  \A l \in DOMAIN ret.data :
            LET variant == ret.data[l].m
            IN  /\ "title|i18n" \notin DOMAIN variant
                /\ "title" \in DOMAIN variant
                /\ l \notin DOMAIN v.m => variant["title"] = None
                /\ (l \in DOMAIN v.m /\ v.m[l].t = "scalar")
                        => variant["title"] = v.m[l]
                /\ (l \in DOMAIN v.m /\ v.m[l].t = "map")
                        => LET w == v.m[l].m["text|i18n"]
                           IN  variant["title"] =
                                 Mp("text" :> (IF l \in DOMAIN w.m THEN w.m[l]
                                               ELSE None))

\* C13 as stated: the languages of the result are exactly the default
\* language and every language code that is a sub-key of an i18n-tagged
\* mapping of the document, and every variant has its tagged keys resolved.
C13_Original ==
    I18nProcessed =>
        /\ DOMAIN ret.data = {arg.data.lang} \cup AllI18nLangs(arg.data.doc)
        /\ VariantsResolved

\* C13 amended: the languages of the result are exactly the default language
\* D and the language codes of the i18n-tagged mappings the pass for D comes
\* to (a mapping nested in the content of another language is not among
\* them); every variant has its tagged keys resolved, and the variant of D
\* is present also when D is a sub-key of no i18n mapping.
C13_Amended ==
    I18nProcessed =>
        /\ DOMAIN ret.data = {arg.data.lang} \cup ReachedLangs(arg.data.doc, arg.data.lang)
        /\ arg.data.lang \in DOMAIN ret.data
        /\ VariantsResolved

\* `title|i18n: {fi: B}` processed with default en: variants en and fi, the
\* title of en is None.
C13_Witness ==
    /\ I18nProcessed
    /\ arg.data.lang = "en"
    /\ arg.data.doc.m["title|i18n"] = Mp("fi" :> Sc("B"))
    /\ DOMAIN ret.data = {"en", "fi"}
    /\ ret.data["en"].m["title"] = None
    /\ ret.data["fi"].m["title"] = Sc("B")

\* No key of the document matches the tag pattern.
RECURSIVE TagFree(_)
TagFree(n) ==
    IF n.t = "map"
    THEN \A k \in DOMAIN n.m :
            /\ k \notin {"title|i18n", "text|i18n", "note|todo"}
            /\ TagFree(n.m[k])
    ELSE IF n.t = "list" THEN \A i \in 1..Len(n.items) : TagFree(n.items[i])
    ELSE TRUE

\* Every mapping key of the document is a string.
RECURSIVE StringKeyed(_)
StringKeyed(n) ==
    IF n.t = "map"
    THEN \A k \in DOMAIN n.m : k \notin NonStringKeys /\ StringKeyed(n.m[k])
    ELSE IF n.t = "list" THEN \A i \in 1..Len(n.items) : StringKeyed(n.items[i])
    ELSE TRUE

\* process_tags returned {L: doc'} with doc' structurally equal to the
\* document, and left the document as it was.
Identity ==
    /\ ret.out = "ok"
    /\ DOMAIN ret.data = {arg.data.lang}
    /\ ret.data[arg.data.lang] = arg.data.doc
    /\ ret.doc = arg.data.doc

\* C14 as stated: for every document in which no mapping key carries a
\* processor tag, process_tags(doc, L) returns exactly the one-entry mapping
\* {L: doc'} with doc' structurally equal to doc, and the input document is
\* left unmodified.
C14_Original ==
    (TagsDone /\ TagFree(arg.data.doc)) => Identity

\* Where C14 holds: the tag-free documents whose mapping keys are all
\* strings.  A key that is not a string makes the call raise TypeError.
C14_Identity ==
    (TagsDone /\ TagFree(arg.data.doc)) =>
        IF StringKeyed(arg.data.doc) THEN Identity ELSE ret.out = "TypeError"

\* The tag-free document {7: 'A'} has been processed: TypeError.
C14_NonStringKey ==
    /\ TagsDone /\ arg.data.doc = Mp("7" :> Sc("A")) /\ ret.out = "TypeError"

\* A mapping that holds a list and a nested mapping has been processed.
C14_Witness ==
    /\ TagsDone /\ TagFree(arg.data.doc) /\ ret.out = "ok"
    /\ arg.data.doc.t = "map"
    /\ DOMAIN arg.data.doc.m = {"title", "view_type", "items"}
    /\ arg.data.doc.m["items"].t = "list" /\ Len(arg.data.doc.m["items"].items) = 2
    /\ arg.data.doc.m["title"].t = "map" /\ DOMAIN arg.data.doc.m["title"].m # {}
    /\ ret.data[arg.data.lang] = arg.data.doc

(***************************************************************************)
(* C15: data_for_language.                                                 *)
(***************************************************************************)
VariantsDone == arg.op = "data_for_language" /\ ret.out # "unset"
\* The variant returned is the one of language l.
ReturnsVariant(l) == ~ret.root /\ ret.variant.m["title"] = Sc(l)

\* C15: data_for_language never fails; it returns the variant of the
\* requested language if the variant set has it, otherwise the variant of
\* the default language if present, otherwise some available variant; the
\* selector `_root` returns the whole variant set.
C15_Fallback ==
    VariantsDone =>
        LET r == arg.data
            have == {r.order[i] : i \in 1..Len(r.order)}
        IN  /\ ret.out = "ok"
            /\ IF r.selector = "_root"
               THEN ret.root /\ ret.data = DataOf(r)
               ELSE IF r.selector \in have THEN ReturnsVariant(r.selector)
               ELSE IF r.course_lang \in have THEN ReturnsVariant(r.course_lang)
               ELSE \E l \in have : ReturnsVariant(l)

\* Neither the requested nor the default language has a variant, and a
\* variant was returned.
C15_Witness ==
    /\ VariantsDone
    /\ arg.data.selector = "fi" /\ arg.data.course_lang = "en"
    /\ arg.data.order = <<"sv">>
    /\ ReturnsVariant("sv")

(***************************************************************************)
(* C16: the variants of a stored exercise record.                          *)
(***************************************************************************)
LoadDone == arg.op = "exercise_config" /\ ret.out # "unset"
\* The keys a variant of the document has once its tags are resolved.
ResolvedNames(n) == {tag_match(k).name : k \in DOMAIN n.m}
\* The document is turned into variants, and they lack title or view_type.
VariantsLackField ==
    /\ ~falsy(arg.data.doc)
    /\ \E p \in process_tags(arg.data.doc, arg.data.lang) : p.out = "ok"
    /\ \/ arg.data.doc.t # "map"
       \/ ~({"title", "view_type"} \subseteq ResolvedNames(arg.data.doc))

\* C16: every variant of a stored exercise record has title and view_type,
\* `key` equal to the exercise key and `mtime` equal to the record's mtime;
\* when the variants lack title or view_type the load raises ConfigError,
\* and a load that fails leaves the exercise cache as it was.
C16_Stamped ==
    LoadDone =>
        /\ \A l \in DOMAIN ret.exercises[ExKey].data :
              LET version == ret.exercises[ExKey].data[l].m
              IN  /\ {"title", "view_type", "key", "mtime"} \subseteq DOMAIN version
                  /\ version["key"] = Sc(ExKey)
                  /\ version["mtime"] = Num(ret.exercises[ExKey].mtime)
        /\ ret.out = "ok" =>
              /\ ret.exercises[ExKey] = ret.rec
              /\ ret.rec.mtime = arg.data.t
              /\ DOMAIN ret.rec.data # {}
        /\ VariantsLackField => ret.out = "ConfigError"
        /\ ret.out # "ok" => ret.exercises = arg.data.exercises

\* A record with the variants en and fi has replaced the earlier record.
C16_Witness ==
    /\ LoadDone /\ ret.out = "ok"
    /\ arg.data.exercises[ExKey] = EarlierExercise
    /\ DOMAIN ret.exercises[ExKey].data = {"en", "fi"}
    /\ ret.exercises[ExKey].data["fi"].m["mtime"] = Num(2)
    /\ ret.exercises[ExKey].data["fi"].m["title"] = None

(***************************************************************************)
(* C17: the flattened exercise list.                                       *)
(***************************************************************************)
FlattenDone == arg.op = "flatten" /\ ret.out # "unset"
\* The config reference of an item: its own `config` if it has the field,
\* else the `config` of its exercise type; resolvable when not empty.
ConfigRef(x, et) ==
    IF x.config.in THEN x.config.s
    ELSE IF x.type.in /\ et.in /\ x.type.s \in DOMAIN et.types
            /\ et.types[x.type.s].in
    THEN et.types[x.type.s].s
    ELSE ""
Collected(x, et) == x.key.in /\ ConfigRef(x, et) # ""

\* The depth-first pre-order sequence of the items collected below the
\* children from the i-th on.
RECURSIVE PreOrder(_, _, _)
PreOrder(children, i, et) ==
    IF i > Len(children) THEN <<>>
    ELSE (IF Collected(children[i], et) THEN <<children[i]>> ELSE <<>>)
            \o PreOrder(children[i].children, 1, et)
            \o PreOrder(children, i + 1, et)
RECURSIVE PreOrderModules(_, _, _)
PreOrderModules(modules, i, et) ==
    IF i > Len(modules) THEN <<>>
    ELSE PreOrder(modules[i], 1, et) \o PreOrderModules(modules, i + 1, et)

\* C17: data["exercises"] is the depth-first pre-order sequence of the keys
\* (as strings) of all items with a key and a non-empty config reference,
\* the item's own `config` taking precedence over its exercise type's;
\* items without one are skipped and their children still visited; the
\* keys of data["config_files"] are the keys of the list.
C17_Flatten ==
    FlattenDone =>
        LET et == arg.data.exercise_types
            want == PreOrderModules(arg.data.modules, 1, et)
        IN  /\ Len(ret.exercises) = Len(want)
            /\ \A i \in 1..Len(want) : ret.exercises[i] = str(want[i].key)
            /\ DOMAIN ret.config_files = {ret.exercises[i] : i \in 1..Len(ret.exercises)}
            /\ \A i \in 1..Len(want) :
                  (\A j \in 1..Len(want) : j # i => str(want[j].key) # str(want[i].key))
                      => ret.config_files[str(want[i].key)] = ConfigRef(want[i], et)

\* An item without key whose child is collected, followed by an item with
\* an integer key that takes the config of its type, and a second module.
C17_Witness ==
    /\ FlattenDone
    /\ ret.exercises = <<"e2", "7", "e3">>
    /\ Len(arg.data.modules[1]) = 2
    /\ ~arg.data.modules[1][1].key.in
    /\ ret.config_files["7"] = "t1.yaml"

(***************************************************************************)
(* C18: the exercise cache against a concurrent writer.                    *)
(***************************************************************************)
\* C18 as stated: a cached exercise record that passes the freshness check
\* holds data parsed from the file's current content.
C18_Original ==
    (race.cached.in /\ race.cached.mtime >= race.file.mtime)
        => race.cached.content = race.file.content

\* What the code does keep: the mtime of a cached record is never behind
\* the version its data was parsed from.
C18_NotBehind ==
    race.cached.in => race.cached.mtime >= race.cached.content

\* A call returns the cached record although the file holds newer content.
C18_StaleHit ==
    ~(race.hit /\ race.cached.content < race.file.content)

====
